---- MODULE Spec2Model ----
(***************************************************************************)
(* Model of src/main.py: the PDF operations MergeStrategy and              *)
(* SplitStrategy and the PDFEditor context that dispatches to one of them. *)
(*                                                                         *)
(* A Python str is a sequence of one-character strings, a list of paths a  *)
(* sequence of such sequences; the pdf_path argument carries its Python    *)
(* type in the field t ("str" or "list").  A page is an opaque number.     *)
(* An Optional[int] is <<>> for None and <<n>> for the integer n.          *)
(* The file system maps a path to [kind, pages]: kind "pdf" is a complete  *)
(* document, "bad" a file that is no valid PDF (empty, truncated), and     *)
(* "absent" no file.                                                       *)
(***************************************************************************)
EXTENDS Integers, Sequences, FiniteSets, TLC

\* Pages of the larger input document.
MaxPages == 3
\* Longest list of paths handed to a merge.
MaxList == 2
\* Largest page index handed to a split.
MaxIdx == 4

VARIABLES
    operation,    \* PDFEditor._operation
    lastSet,      \* history: the operation last handed to __init__ or the setter
    ctorOp,       \* history: the operation handed to __init__
    fs,           \* the file system
    fs0,          \* history: the file system when the running call started
    pc,           \* position of the running execute; "returned" when control is
                  \* back at the caller, "idle" once the caller has moved on
    frame,        \* the parameters of the running execute, bound
    via,          \* history: "editor" when the call came through execute_operation
    request,      \* history: the arguments the caller passed
    invocations,  \* history: the execute calls the caller's request led to
    i,            \* MergeStrategy.execute: index of the next path of the loop
    writer,       \* the pages added to the PdfWriter
    out,          \* the output file object: "none", "open" or "closed"
    result,       \* "none" while running, then "ok" or "error"
    raisedAt      \* where the error was raised: "none", "call", "read", "open",
                  \* "write"

vars == <<operation, lastSet, ctorOp, fs, fs0, pc, frame, via, request,
          invocations, i, writer, out, result, raisedAt>>

Operations == {"Merge", "Split"}

A == <<"a">>
B == <<"b">>
X == <<"x">>
O == <<"o">>
AB == <<"a", "b">>

Str(s) == [t |-> "str", v |-> s]
List(l) == [t |-> "list", v |-> l]

Absent == [kind |-> "absent", pages |-> <<>>]
Pdf(pages) == [kind |-> "pdf", pages |-> pages]
Bad(pages) == [kind |-> "bad", pages |-> pages]

\* The n pages of document d.
Doc(d, n) == [k \in 1..n |-> 10 * d + k]

InputNames == {A, B, X}
StrArgs == {Str(s) : s \in InputNames \cup {AB}}
Lists == UNION {[1..n -> InputNames] : n \in 0..MaxList}
ListArgs == {List(l) : l \in Lists}
Starts == (0 - 1)..MaxIdx
Ends == {<<>>} \cup {<<e>> : e \in Starts}

Lookup(f, name) == IF name \in DOMAIN f THEN f[name] ELSE Absent

\* for path in pdf_paths: a list yields its elements, a str its characters.
Iter(arg) ==
    IF arg.t = "list" THEN arg.v ELSE [k \in 1..Len(arg.v) |-> <<arg.v[k]>>]

\* PdfReader(path) and reader.pages: raises unless the file is a PDF.
PdfReader(f, name) ==
    LET file == Lookup(f, name)
    IN  IF file.kind = "pdf"
        THEN [raised |-> FALSE, pages |-> file.pages]
        ELSE [raised |-> TRUE, pages |-> <<>>]

AddPagesFront(w, pages) == pages \o w

\* for page in reader.pages: writer.add_page(page)
AddPages(w, pages) == w \o pages

MergeOpenEarly(k, n) == "open"

\* The merge loop goes on while paths are left, then the output is opened.
MergeNextPc(k, n) == IF k <= n THEN "merge_loop" ELSE "open"

Clamp(x, n) == IF x < 0 THEN (IF x + n < 0 THEN 0 ELSE x + n)
               ELSE IF x > n THEN n ELSE x

SliceIndicesShort(start, end, n) ==
    <<Clamp(start, n),
      IF end = <<>> THEN n
      ELSE IF end[1] > n THEN (IF n > 0 THEN n - 1 ELSE 0) ELSE Clamp(end[1], n)>>

\* slice(start, end).indices(n): negative indices count from the end, and
\* both are clamped to 0..n.
SliceIndices(start, end, n) ==
    <<Clamp(start, n), IF end = <<>> THEN n ELSE Clamp(end[1], n)>>

SliceInclusive(pages, start, end) ==
    LET se == SliceIndices(start, end, Len(pages))
        e == IF se[2] < Len(pages) THEN se[2] + 1 ELSE se[2]
    IN  IF se[1] < e THEN SubSeq(pages, se[1] + 1, e) ELSE <<>>

\* reader.pages[start_page:end_page]
Slice(pages, start, end) ==
    LET se == SliceIndices(start, end, Len(pages))
    IN  IF se[1] < se[2] THEN SubSeq(pages, se[1] + 1, se[2]) ELSE <<>>

SplitSelectStrict(f, fr) ==
    LET r == IF fr.pdf_path.t = "str" THEN PdfReader(f, fr.pdf_path.v)
             ELSE [raised |-> TRUE, pages |-> <<>>]
        n == Len(r.pages)
    IN  IF r.raised \/ fr.start_page > n
           \/ (fr.end_page # <<>> /\ fr.end_page[1] > n)
        THEN [raised |-> TRUE, pages |-> <<>>]
        ELSE [raised |-> FALSE, pages |-> Slice(r.pages, fr.start_page, fr.end_page)]

\* SplitStrategy.execute up to the last add_page: PdfReader takes a path,
\* anything else makes it raise.
SplitSelect(f, fr) ==
    LET r == IF fr.pdf_path.t = "str" THEN PdfReader(f, fr.pdf_path.v)
             ELSE [raised |-> TRUE, pages |-> <<>>]
    IN  IF r.raised THEN r
        ELSE [raised |-> FALSE, pages |-> Slice(r.pages, fr.start_page, fr.end_page)]

\* open(output_path, 'wb') creates the file or truncates it.
OpenWb(f, path) == [f EXCEPT ![path] = Bad(<<>>)]

\* writer.write(out) running to its end.
WriteAll(f, path, w) == [f EXCEPT ![path] = Pdf(w)]

\* writer.write(out) raising after k pages reached the file.
WritePartial(f, path, w, k) == [f EXCEPT ![path] = Bad(SubSeq(w, 1, k))]

WithExitLeak(h, raised) == IF raised THEN h ELSE "closed"

\* Leaving the with block closes the file, on return and on an exception.
WithExit(h, raised) == "closed"

ForwardExtra(op, pdf_path, output_path) ==
    <<[callee |-> op, args |-> <<pdf_path, output_path, 1>>]>>

\* self._operation.execute(pdf_path, output_path)
Forward(op, pdf_path, output_path) ==
    <<[callee |-> op, args |-> <<pdf_path, output_path>>]>>

\* The parameters of execute bound to the arguments of a call: start_page
\* and end_page take their defaults when the call does not give them.
Bind(call) ==
    [callee |-> call.callee,
     pdf_path |-> call.args[1],
     output_path |-> call.args[2],
     start_page |-> IF Len(call.args) >= 3 THEN call.args[3] ELSE 0,
     end_page |-> IF Len(call.args) >= 4 THEN call.args[4] ELSE <<>>]

NoFrame == [callee |-> "None", pdf_path |-> List(<<>>), output_path |-> O,
            start_page |-> 0, end_page |-> <<>>]

NoRequest == [pdf_path |-> List(<<>>), output_path |-> O]

Init ==
    /\ operation \in Operations
    /\ lastSet = operation
    /\ ctorOp = operation
    /\ fs \in {[n \in {A, B, O} |->
                  IF n = A THEN Pdf(Doc(1, MaxPages))
                  ELSE IF n = B THEN Pdf(Doc(2, 1))
                  ELSE o] : o \in {Absent, Pdf(Doc(3, 1))}}
    /\ fs0 = fs
    /\ pc = "idle"
    /\ frame = NoFrame
    /\ via = "none"
    /\ request = NoRequest
    /\ invocations = <<>>
    /\ i = 1
    /\ writer = <<>>
    /\ out = "none"
    /\ result = "none"
    /\ raisedAt = "none"

\* An execute call starts: its parameters are bound and nothing is read yet.
\* Calling execute on a value that is no operation raises at once.
Enter(calls, v, req) ==
    LET fr == Bind(calls[1])
        valid == fr.callee \in Operations
    IN  /\ frame' = fr
        /\ via' = v
        /\ request' = req
        /\ invocations' = calls
        /\ fs0' = fs
        /\ i' = 1
        /\ writer' = <<>>
        /\ out' = "none"
        /\ result' = IF valid THEN "none" ELSE "error"
        /\ raisedAt' = IF valid THEN "none" ELSE "call"
        /\ pc' = IF ~valid THEN "returned"
                 ELSE IF fr.callee = "Merge"
                      THEN MergeNextPc(1, Len(Iter(fr.pdf_path)))
                      ELSE "split_read"
        /\ UNCHANGED fs

\* An exception leaves execute and reaches the caller.
Raise(at) ==
    /\ result' = "error"
    /\ raisedAt' = at
    /\ pc' = "returned"

SetOperationNull(op) ==
    /\ pc = "idle"
    /\ operation' = "None"
    /\ lastSet' = op
    /\ UNCHANGED <<ctorOp, fs, fs0, pc, frame, via, request, invocations, i,
                   writer, out, result, raisedAt>>

SetOperationStale(op) ==
    /\ pc = "idle"
    /\ lastSet' = op
    /\ UNCHANGED <<operation, ctorOp, fs, fs0, pc, frame, via, request,
                   invocations, i, writer, out, result, raisedAt>>

\* PDFEditor.operation = op
SetOperation(op) ==
    /\ pc = "idle"
    /\ operation' = op
    /\ lastSet' = op
    /\ UNCHANGED <<ctorOp, fs, fs0, pc, frame, via, request, invocations, i,
                   writer, out, result, raisedAt>>

\* PDFEditor.execute_operation(pdf_path, output_path)
ExecuteOperation(pdf_path, output_path) ==
    /\ pc = "idle"
    /\ Enter(Forward(operation, pdf_path, output_path), "editor",
             [pdf_path |-> pdf_path, output_path |-> output_path])
    /\ UNCHANGED <<operation, lastSet, ctorOp>>

\* MergeStrategy().execute(pdf_paths, output_path)
CallMerge(pdf_paths, output_path) ==
    /\ pc = "idle"
    /\ Enter(<<[callee |-> "Merge", args |-> <<pdf_paths, output_path>>]>>,
             "direct", [pdf_path |-> pdf_paths, output_path |-> output_path])
    /\ UNCHANGED <<operation, lastSet, ctorOp>>

\* SplitStrategy().execute(pdf_path, output_path, start_page, end_page)
CallSplit(pdf_path, output_path, start_page, end_page) ==
    /\ pc = "idle"
    /\ Enter(<<[callee |-> "Split",
                args |-> <<pdf_path, output_path, start_page, end_page>>]>>,
             "direct", [pdf_path |-> pdf_path, output_path |-> output_path])
    /\ UNCHANGED <<operation, lastSet, ctorOp>>

\* One round of the merge loop: read the next document, add its pages.
MergeRead ==
    /\ pc = "merge_loop"
    /\ LET paths == Iter(frame.pdf_path)
           r == PdfReader(fs, paths[i])
       IN  IF r.raised
           THEN /\ Raise("read")
                /\ UNCHANGED <<i, writer>>
           ELSE /\ writer' = AddPages(writer, r.pages)
                /\ i' = i + 1
                /\ pc' = MergeNextPc(i + 1, Len(paths))
                /\ UNCHANGED <<result, raisedAt>>
    /\ UNCHANGED <<operation, lastSet, ctorOp, fs, fs0, frame, via, request,
                   invocations, out>>

\* SplitStrategy.execute reads the document and adds the selected pages.
SplitRead ==
    /\ pc = "split_read"
    /\ LET r == SplitSelect(fs, frame)
       IN  IF r.raised
           THEN /\ Raise("read")
                /\ UNCHANGED writer
           ELSE /\ writer' = r.pages
                /\ pc' = "open"
                /\ UNCHANGED <<result, raisedAt>>
    /\ UNCHANGED <<operation, lastSet, ctorOp, fs, fs0, frame, via, request,
                   invocations, i, out>>

\* open(output_path, 'wb') succeeds.
OpenOk ==
    /\ pc = "open"
    /\ fs' = OpenWb(fs, frame.output_path)
    /\ out' = "open"
    /\ pc' = "write"
    /\ UNCHANGED <<operation, lastSet, ctorOp, fs0, frame, via, request,
                   invocations, i, writer, result, raisedAt>>

\* open(output_path, 'wb') raises: the path cannot be opened for writing.
OpenFail ==
    /\ pc = "open"
    /\ Raise("open")
    /\ UNCHANGED <<operation, lastSet, ctorOp, fs, fs0, frame, via, request,
                   invocations, i, writer, out>>

\* writer.write(out) succeeds and the with block is left.
WriteOk ==
    /\ pc = "write"
    /\ fs' = WriteAll(fs, frame.output_path, writer)
    /\ out' = WithExit(out, FALSE)
    /\ result' = "ok"
    /\ pc' = "returned"
    /\ UNCHANGED <<operation, lastSet, ctorOp, fs0, frame, via, request,
                   invocations, i, writer, raisedAt>>

\* writer.write(out) raises after k pages and the with block is left.
WriteFail(k) ==
    /\ pc = "write"
    /\ fs' = WritePartial(fs, frame.output_path, writer, k)
    /\ out' = WithExit(out, TRUE)
    /\ Raise("write")
    /\ UNCHANGED <<operation, lastSet, ctorOp, fs0, frame, via, request,
                   invocations, i, writer>>

\* The caller moves on: what the finished call recorded is dropped.
Return ==
    /\ pc = "returned"
    /\ pc' = "idle"
    /\ frame' = NoFrame
    /\ via' = "none"
    /\ request' = NoRequest
    /\ invocations' = <<>>
    /\ fs0' = fs
    /\ i' = 1
    /\ writer' = <<>>
    /\ out' = "none"
    /\ result' = "none"
    /\ raisedAt' = "none"
    /\ UNCHANGED <<operation, lastSet, ctorOp, fs>>

Next ==
    \/ \E op \in Operations : SetOperation(op)
    \/ \E p \in StrArgs \cup ListArgs : ExecuteOperation(p, O)
    \/ \E l \in ListArgs : CallMerge(l, O)
    \/ \E p \in StrArgs, s \in Starts, e \in Ends : CallSplit(p, O, s, e)
    \/ MergeRead
    \/ SplitRead
    \/ OpenOk
    \/ OpenFail
    \/ WriteOk
    \/ \E k \in 0..Len(writer) : WriteFail(k)
    \/ Return

Spec == Init /\ [][Next]_vars

(***************************************************************************)
(* What the claims speak of.                                               *)
(***************************************************************************)

Returned == pc = "returned"

\* The output file as the call left it, and as the call found it.
OutFile == fs[frame.output_path]
OutBefore == fs0[frame.output_path]

\* The document a split was given, as it was when the call started.
InFile == IF frame.pdf_path.t = "str" THEN Lookup(fs0, frame.pdf_path.v) ELSE Absent
InPages == InFile.pages
NPages == Len(InPages)
Readable == InFile.kind = "pdf"

\* end_page with None read as the page count.
EndOr(n) == IF frame.end_page = <<>> THEN n ELSE frame.end_page[1]

NonNegative ==
    frame.start_page >= 0 /\ (frame.end_page = <<>> \/ frame.end_page[1] >= 0)

RECURSIVE Concat(_, _)
Concat(names, f) ==
    IF names = <<>> THEN <<>>
    ELSE Lookup(f, Head(names)).pages \o Concat(Tail(names), f)

RECURSIVE SumLen(_, _)
SumLen(names, f) ==
    IF names = <<>> THEN 0
    ELSE Len(Lookup(f, Head(names)).pages) + SumLen(Tail(names), f)

\* C1: a merge that completes leaves at the output path a document whose
\* pages are the pages of the inputs, input after input in list order,
\* each input's pages in their order; their number is the sum of the
\* inputs' page counts.
C1_MergeConcatenates ==
    (Returned /\ frame.callee = "Merge" /\ result = "ok") =>
        /\ OutFile.kind = "pdf"
        /\ OutFile.pages = Concat(Iter(frame.pdf_path), fs0)
        /\ Len(OutFile.pages) = SumLen(Iter(frame.pdf_path), fs0)

C1_Witness ==
    /\ Returned /\ frame.callee = "Merge" /\ result = "ok"
    /\ frame.pdf_path.t = "list"
    /\ Len(frame.pdf_path.v) = 2
    /\ frame.pdf_path.v[1] # frame.pdf_path.v[2]
    /\ \A k \in 1..2 : Len(Lookup(fs0, frame.pdf_path.v[k]).pages) > 0

\* C2: a split of an N-page document with 0 <= a <= b <= N (b = N when
\* end_page is None) that completes leaves exactly b - a pages, the input
\* pages a, a+1, ..., b-1 in that order.
C2_SplitRange ==
    LET a == frame.start_page
        b == EndOr(NPages)
    IN  (Returned /\ frame.callee = "Split" /\ result = "ok"
         /\ 0 <= a /\ a <= b /\ b <= NPages) =>
            /\ OutFile.kind = "pdf"
            /\ Len(OutFile.pages) = b - a
            /\ \A k \in 1..(b - a) : OutFile.pages[k] = InPages[a + k]

C2_Witness ==
    /\ Returned /\ frame.callee = "Split" /\ result = "ok"
    /\ frame.end_page # <<>>
    /\ 0 < frame.start_page
    /\ frame.start_page < frame.end_page[1]
    /\ frame.end_page[1] < NPages

\* C3: an execute_operation call dispatches to the operation most recently
\* handed to the constructor or the setter.
C3_DispatchesToLatest ==
    [][(pc = "idle" /\ pc' # "idle" /\ via' = "editor") =>
          frame'.callee = lastSet]_vars

C3_Witness ==
    /\ pc \notin {"idle", "returned"}
    /\ via = "editor"
    /\ lastSet # ctorOp
    /\ frame.callee = lastSet

OutOfRange ==
    frame.start_page > NPages \/ (frame.end_page # <<>> /\ frame.end_page[1] > NPages)

\* C5 as stated: a split whose start_page or end_page is greater than the
\* page count of its input fails.
C5_OutOfRangeFails ==
    (Returned /\ frame.callee = "Split" /\ Readable /\ OutOfRange) =>
        result = "error"

\* C5 amended: a split of a readable document whose start_page or end_page
\* is greater than the page count raises nothing while it reads and selects
\* pages; it fails only when opening or writing the output fails, and
\* otherwise completes.
C5_OutOfRangeDoesNotFail ==
    (Returned /\ frame.callee = "Split" /\ Readable /\ OutOfRange) =>
        /\ raisedAt \in {"none", "open", "write"}
        /\ raisedAt = "none" => result = "ok"

C5_Witness ==
    /\ Returned /\ frame.callee = "Split" /\ Readable
    /\ frame.start_page > NPages
    /\ frame.end_page # <<>> /\ frame.end_page[1] > NPages
    /\ result = "ok"

\* C6: a split with non-negative indices of a readable N-page document
\* raises nothing of its own; it leaves no page when start_page >= end_page
\* or start_page >= N, and with end_page > N the pages start_page..N-1.
C6_SplitClamps ==
    LET a == frame.start_page
        b == EndOr(NPages)
    IN  (Returned /\ frame.callee = "Split" /\ Readable /\ NonNegative) =>
            /\ raisedAt # "read"
            /\ result = "ok" =>
                  /\ OutFile.kind = "pdf"
                  /\ (a >= b \/ a >= NPages) => OutFile.pages = <<>>
                  /\ b > NPages =>
                        OutFile.pages = [k \in 1..(IF a < NPages THEN NPages - a ELSE 0)
                                            |-> InPages[a + k]]

C6_Witness ==
    /\ Returned /\ frame.callee = "Split" /\ Readable /\ result = "ok"
    /\ frame.start_page > 0 /\ frame.start_page < NPages
    /\ frame.end_page # <<>> /\ frame.end_page[1] > NPages
    /\ Len(OutFile.pages) = NPages - frame.start_page

\* C7 as stated: after a failed merge or split the output path holds what
\* it held before the call or a complete document.
C7_NoPartialOutput ==
    (Returned /\ result = "error" /\ frame.callee \in Operations) =>
        (OutFile = OutBefore \/ OutFile.kind = "pdf")

\* C8: when control is back at the caller, after a return or an error, the
\* output file object is not open; it is open only while the pages are
\* written.
C8_HandleClosed ==
    /\ Returned => out # "open"
    /\ out = "open" => pc = "write"

C8_Witness ==
    /\ Returned /\ raisedAt = "write" /\ out = "closed"
    /\ Len(writer) > 1
    /\ Len(OutFile.pages) = 1

\* C9: execute_operation calls execute of the held operation once, with the
\* two arguments it was given and no other, and leaves the held operation
\* as it is; a split run this way has start_page 0 and end_page None and
\* copies its whole input.
C9_ForwardsUnchanged ==
    /\ [](via = "editor" =>
            /\ Len(invocations) = 1
            /\ invocations[1].callee = frame.callee
            /\ invocations[1].args = <<request.pdf_path, request.output_path>>
            /\ frame.pdf_path = request.pdf_path
            /\ frame.output_path = request.output_path
            /\ frame.callee = "Split" =>
                  /\ frame.start_page = 0
                  /\ frame.end_page = <<>>
                  /\ (Returned /\ result = "ok") => OutFile = Pdf(InPages))
    /\ [][(pc # "idle" \/ pc' # "idle") => operation' = operation]_vars

C9_Witness ==
    /\ Returned /\ via = "editor" /\ frame.callee = "Split" /\ result = "ok"
    /\ NPages > 1
    /\ OutFile = Pdf(InPages)

\* C10: the output path is opened only after every input has been read:
\* while inputs are read the output is not opened and no file has changed,
\* a merge has gone through its whole list when the output is opened, and
\* after an error raised while reading the output was never opened and
\* holds what it held before the call.
C10_OpenAfterReads ==
    /\ pc \in {"merge_loop", "split_read"} => (out = "none" /\ fs = fs0)
    /\ (out # "none" /\ frame.callee = "Merge") => i > Len(Iter(frame.pdf_path))
    /\ raisedAt = "read" => (out = "none" /\ fs = fs0)

C10_Witness ==
    /\ Returned /\ frame.callee = "Merge" /\ raisedAt = "read"
    /\ i > 1
    /\ OutBefore.kind = "pdf"
    /\ OutFile = OutBefore


====
